---- MODULE Spec2Model ----
(***************************************************************************)
(* Query decomposition engine of the RAG server                            *)
(* (rag_server/query_decomposition.py) and the response stream it hands    *)
(* to its caller (rag_server/response_generator.py).                       *)
(*                                                                         *)
(* Texts are sequences of one-character strings.  Relevance scores are     *)
(* fixed-point numbers in thousandths (500 is 0.5).                        *)
(***************************************************************************)
EXTENDS Integers, Sequences, FiniteSets, TLC

\* ------------------------------------------------------------------ bounds
MaxDepth == 2
MaxSub == 2
MaxDocs == 4
MaxIncr == 3
MaxCtx == 3

\* ------------------------------------------------------------------ state
VARIABLES
    vdb_op,               \* a retriever handle was supplied
    ranker,               \* a reranker was supplied
    rerank_pattern,       \* how the supplied reranker scores documents against the query
    recursion_depth,      \* the recursion_depth argument
    confidence_threshold, \* the confidence_threshold argument (thousandths)
    pc,                   \* position of iterative_query_decomposition
    mode,                 \* "none" | "single" | "iter": who called retrieve_and_rank_documents
    questions,            \* the active question list
    depth,                \* loop variable of `for depth in range(recursion_depth)`
    qi,                   \* index (1-based) of the question process_subqueries is at
    history,              \* process_subqueries' local history
    round_contexts,       \* process_subqueries' local final_contexts
    iteration_history,    \* <<>> while unbound, else <<value>>
    final_contexts,       \* the orchestrator's accumulated contexts
    rewritten_query,
    retrieved_docs,
    fr_args,              \* <<>> or <<[history, contexts]>>: arguments of generate_final_response
    trace,                \* calls made so far, in order: <<op, text>>
    error,                \* "none" or the exception that left iterative_query_decomposition
    result,               \* "none" or "stream": what iterative_query_decomposition returned
    subqueries,           \* log: <<>> or <<the list generate_subqueries returned>>
    followups,            \* log: per generate_followup_question call, its history and contexts arguments, the language model's output and the value returned
    retrieved_counts,     \* log: how many documents each retrieval returned, in order
    rewrites,             \* log: the history each rewrite_query_with_context call was given
    failed,               \* log: "none" or the collaborator call that raised
    generator,            \* generate_answer: the increments the language model has yet to emit
    generator_raises,     \* generate_answer: the language-model stream raises once they are emitted
    enable_citations,     \* generate_answer: its enable_citations argument
    ga_pc,                \* generate_answer: "idle" | "running" | "handled" | "closed"
    pulled,               \* generate_answer: the increments pulled from the language model so far
    events,               \* generate_answer: what it has yielded to its consumer, in order
    contexts,             \* generate_answer / prepare_citations: the context documents argument
    prepare_calls,        \* log: how many times generate_answer called prepare_citations
    store_calls,          \* log: how many object-store fetches those calls made
    force_citations,      \* prepare_citations called directly: its force_citations argument
    citations_result,     \* prepare_citations called directly: <<>> or <<what the call gave>>
    norm_documents,       \* normalize_relevance_scores called directly: its documents argument
    norm_filter_docs,     \* normalize_relevance_scores called directly: its filter_docs argument
    norm_result,          \* normalize_relevance_scores called directly: <<>> or <<the list returned>>
    lm_output,            \* the parser of generate_subqueries applied directly: the text the language model gave
    parsed                \* the parser of generate_subqueries applied directly: <<>> or <<its outcome>>

vars == <<vdb_op, ranker, rerank_pattern, recursion_depth, confidence_threshold, pc, mode,
          questions, depth, qi, history, round_contexts, iteration_history,
          final_contexts, rewritten_query, retrieved_docs, fr_args, trace,
          error, result, subqueries, followups, retrieved_counts, rewrites, failed, generator, generator_raises, enable_citations, ga_pc,
          pulled, events, contexts, prepare_calls, store_calls, force_citations,
          citations_result, norm_documents, norm_filter_docs, norm_result, lm_output,
          parsed>>

stream_vars == <<generator, generator_raises, enable_citations, ga_pc, pulled, events,
                 contexts, prepare_calls, store_calls>>

\* Variables of the direct calls of prepare_citations and normalize_relevance_scores.
direct_vars == <<force_citations, citations_result, norm_documents, norm_filter_docs,
                 norm_result, lm_output, parsed>>

run_vars == <<vdb_op, ranker, rerank_pattern, recursion_depth, confidence_threshold,
              pc, mode, questions, depth, qi, history, round_contexts,
              iteration_history, final_contexts, rewritten_query, retrieved_docs,
              fr_args, trace, error, result, subqueries, followups,
              retrieved_counts, rewrites, failed>>

log_vars == <<subqueries, followups, retrieved_counts, rewrites, failed>>

inputs == <<vdb_op, ranker, rerank_pattern, recursion_depth, confidence_threshold>>

\* ------------------------------------------------------------------ texts
Query == <<"Q">>

Digits == <<"1", "2", "3", "4", "5", "6", "7", "8", "9">>

Whitespace == {" ", "\n", "\t"}

Quotes == {"'", "\""}

RECURSIVE LStrip(_)
LStrip(s) == IF s # <<>> /\ Head(s) \in Whitespace THEN LStrip(Tail(s)) ELSE s

RECURSIVE RStrip(_)
RStrip(s) ==
    IF s # <<>> /\ s[Len(s)] \in Whitespace THEN RStrip(SubSeq(s, 1, Len(s) - 1)) ELSE s

\* str.strip()
Strip(s) == RStrip(LStrip(s))

\* s.replace("'", "").replace('"', "")
RemoveQuotes(s) == SelectSeq(s, LAMBDA c : c \notin Quotes)

\* ------------------------------------------------------------------ documents
\* A Document: id identifies the chunk (retrieval call number, rank in that
\* call); has_score says whether metadata carries "relevance_score".
Doc(k, i) == [id |-> <<k, i>>, has_score |-> FALSE, score |-> 0]

\* 1 / (1 + exp(-0.1 * raw)) in thousandths, for the raw scores the reranker
\* of this model hands out (multiples of 10).
Sigmoid(raw) ==
    CASE raw = -40 -> 18
      [] raw = -30 -> 47
      [] raw = -20 -> 119
      [] raw = -10 -> 269
      [] raw = 0 -> 500
      [] raw = 10 -> 731
      [] raw = 20 -> 881
      [] raw = 30 -> 953
      [] raw = 40 -> 982

\* The key of the sort: doc.metadata.get("relevance_score", 0)
SortKey(d) == IF d.has_score THEN d.score ELSE 0

\* Variant: d goes in front of the elements whose key equals its own.
RECURSIVE InsertDescBeforeEqual(_, _)
InsertDescBeforeEqual(sorted, d) ==
    IF sorted = <<>> THEN <<d>>
    ELSE IF SortKey(Head(sorted)) > SortKey(d)
         THEN <<Head(sorted)>> \o InsertDescBeforeEqual(Tail(sorted), d)
         ELSE <<d>> \o sorted

\* Insert d behind every element whose key is >= its own: what a stable
\* descending sort does with the elements taken in their original order.
RECURSIVE InsertDesc(_, _)
InsertDesc(sorted, d) ==
    IF sorted = <<>> THEN <<d>>
    ELSE IF SortKey(Head(sorted)) >= SortKey(d)
         THEN <<Head(sorted)>> \o InsertDesc(Tail(sorted), d)
         ELSE <<d>> \o sorted

RECURSIVE SortedDesc(_)
SortedDesc(docs) ==
    IF docs = <<>> THEN <<>>
    ELSE InsertDesc(SortedDesc(SubSeq(docs, 1, Len(docs) - 1)), docs[Len(docs)])

TopN == 3

\* Variant: nothing is cut off.
TakeAll(s, n) == s

\* s[:n]
Take(s, n) == SubSeq(s, 1, IF Len(s) < n THEN Len(s) ELSE n)

\* filter_documents_by_confidence (nvidia_rag.utils.common)
filter_documents_by_confidence(docs, threshold) ==
    SelectSeq(docs, LAMBDA d : SortKey(d) >= threshold)

\* Variant: a document without a score is given one.
NormalizeScoreDefaulted(d) ==
    IF d.has_score THEN [d EXCEPT !.score = Sigmoid(d.score)]
    ELSE [d EXCEPT !.has_score = TRUE, !.score = 500]

NormalizeScore(d) == IF d.has_score THEN [d EXCEPT !.score = Sigmoid(d.score)] ELSE d

normalize_relevance_scores(documents, filter_docs, threshold) ==
    IF documents = <<>> THEN documents
    ELSE LET normalized == [i \in DOMAIN documents |-> NormalizeScore(documents[i])]
             kept == IF filter_docs THEN Take(SortedDesc(normalized), TopN) ELSE normalized
         IN  IF threshold > 0 THEN filter_documents_by_confidence(kept, threshold) ELSE kept

\* ------------------------------------------------------------------ collaborators
\* What the language model may answer to the decomposition prompt, after
\* generate_subqueries' parsing: a list of n sub-questions.
SubQ(i) == <<"s", Digits[i]>>

Subqueries(n) == [i \in 1..n |-> SubQ(i)]

\* What the language model answers to the rewrite prompt for a question.
RewriteOutput(question) == <<" ", "r">> \o question \o <<"\n">>

\* What the language model answers to the RAG prompt.
AnswerOutput(question) == <<"a">> \o question

\* What the language model may answer to the follow-up prompt.
FollowupOutputs == {<<>>, <<" ">>, <<"'", "'">>, <<" ", "f", "?">>, <<"'", " ", "'">>}

\* How many documents a retrieval may return: none, one, as many as the top-3
\* selection keeps, or more.
RetrievedSizes == {0, 1, TopN, MaxDocs}

\* Raw scores a reranker may give the document at rank i.  The reranker always
\* scores against the same (original) query, so one run has one pattern.
RerankPatterns == {"asc", "flat"}

RawScore(p, i) == IF p = "asc" THEN 10 * i - 20 ELSE 10

Reranked(docs, p) ==
    [i \in DOMAIN docs |-> [docs[i] EXCEPT !.has_score = TRUE, !.score = RawScore(p, i)]]

Called(op, text) == trace' = Append(trace, <<op, text>>)

Count(t, op) == Cardinality({i \in DOMAIN t : t[i][1] = op})

\* An exception leaves iterative_query_decomposition.
Raise(e) == /\ pc' = "raised"
            /\ error' = e

\* Variant: the failed call is tried again instead of the exception leaving.
FailRetried(op) == /\ failed' = op
                   /\ UNCHANGED <<pc, error>>

\* A collaborator call raises: nothing in query_decomposition.py catches it.
Fail(op) == /\ Raise("CollaboratorError")
            /\ failed' = op

\* ------------------------------------------------------------------ Init
RunInit ==
    /\ mode = "none"
    /\ questions = <<>>
    /\ depth = 0
    /\ qi = 0
    /\ history = <<>>
    /\ round_contexts = <<>>
    /\ iteration_history = <<>>
    /\ final_contexts = <<>>
    /\ rewritten_query = <<>>
    /\ retrieved_docs = <<>>
    /\ fr_args = <<>>
    /\ trace = <<>>
    /\ error = "none"
    /\ result = "none"
    /\ subqueries = <<>>
    /\ followups = <<>>
    /\ retrieved_counts = <<>>
    /\ rewrites = <<>>
    /\ failed = "none"

\* No direct call of prepare_citations or normalize_relevance_scores is under way.
DirectIdle ==
    /\ force_citations = FALSE
    /\ citations_result = <<>>
    /\ norm_documents = <<>>
    /\ norm_filter_docs = FALSE
    /\ norm_result = <<>>
    /\ lm_output = <<>>
    /\ parsed = <<>>

Init ==
    /\ vdb_op \in BOOLEAN
    /\ ranker \in BOOLEAN
    /\ rerank_pattern \in (IF ranker THEN RerankPatterns ELSE {"asc"})
    /\ recursion_depth \in -1..MaxDepth
    /\ confidence_threshold \in {0, 600}
    /\ pc = "start"
    /\ RunInit
    /\ generator = <<>>
    /\ generator_raises = FALSE
    /\ enable_citations = FALSE
    /\ ga_pc = "idle"
    /\ pulled = <<>>
    /\ events = <<>>
    /\ contexts = <<>>
    /\ prepare_calls = 0
    /\ store_calls = 0
    /\ DirectIdle

\* ------------------------------------------------------------------ decisions of the code
\* Variant: the history is never taken for empty.
HistoryIsEmptyNever(h) == FALSE

\* `if not history:` of rewrite_query_with_context
HistoryIsEmpty(h) == h = <<>>

\* Variant: the reranker is given the query the retriever was given.
RerankQueryRewritten(original_query, query) == query

\* The query argument of ranker.compress_documents
RerankQuery(original_query, query) == original_query

\* Variant: every round goes on from the history of the round before.
RoundHistoryKept(previous) == previous

\* `history = []` at the start of process_subqueries
RoundHistory(previous) == <<>>

\* Variant: the rewritten question is recorded.
HistoryEntryRewritten(question, rewritten, answer) == <<rewritten, answer>>

\* history.append((question, answer))
HistoryEntry(question, rewritten, answer) == <<question, answer>>

\* Variant: documents are kept without a reranker too.
KeepsContextsUnranked(has_ranker, docs) == docs # <<>>

\* `if ranker and retrieved_docs:` of process_subqueries
KeepsContexts(has_ranker, docs) == has_ranker /\ docs # <<>>

\* Variant: the loop goes on whatever the follow-up is.
ContinuesAlways(followup_question) == TRUE

\* `if followup_question.strip():`
Continues(followup_question) == Strip(followup_question) # <<>>

\* Variant: the follow-up question joins the active questions.
NextQuestionsAppended(current, followup_question) == Append(current, followup_question)

\* `questions = [followup_question]`
NextQuestions(current, followup_question) == <<followup_question>>

\* Variant: the new documents are put in front of the accumulated ones.
ExtendInFront(list, more) == more \o list

\* Variant: the new documents take the place of the accumulated ones.
ExtendReplacing(list, more) == more

\* list.extend(more)
Extend(list, more) == list \o more

\* ------------------------------------------------------------------ iterative_query_decomposition
\* Variant: the handle is not validated.
RetrieverMissingUnchecked(handle) == FALSE

\* `if not vdb_op`
RetrieverMissing(handle) == ~handle

\* `if not vdb_op: raise ValueError`
CheckRetriever ==
    /\ pc = "start"
    /\ IF RetrieverMissing(vdb_op)
       THEN Raise("ValueError")
       ELSE /\ pc' = "generate_subqueries"
            /\ UNCHANGED error
    /\ UNCHANGED <<inputs, stream_vars, direct_vars, log_vars, mode, questions, depth, qi, history,
                   round_contexts, iteration_history, final_contexts,
                   rewritten_query, retrieved_docs, fr_args, trace, result>>

\* Variant: the single-query branch is taken for an empty list only.
IsSingleQueryBelowOne(qs) == Len(qs) < 1

\* `if len(questions) == 1`
IsSingleQuery(qs) == Len(qs) = 1

\* `questions = generate_subqueries(query, llm)` and the branch on its length
GenerateSubqueries ==
    /\ pc = "generate_subqueries"
    /\ Called("generate_subqueries", Query)
    /\ \/ /\ Fail("generate_subqueries")
          /\ UNCHANGED <<mode, questions, rewritten_query, subqueries>>
       \/ \E n \in 0..MaxSub :
            /\ questions' = Subqueries(n)
            /\ subqueries' = <<Subqueries(n)>>
            /\ IF IsSingleQuery(Subqueries(n))
               THEN /\ mode' = "single"
                    /\ rewritten_query' = Query
                    /\ pc' = "retrieve"
               ELSE /\ mode' = "iter"
                    /\ pc' = "loop"
                    /\ UNCHANGED rewritten_query
            /\ UNCHANGED <<error, failed>>
    /\ UNCHANGED <<inputs, stream_vars, direct_vars, rewrites, followups, retrieved_counts, depth, qi, history,
                   round_contexts, iteration_history, final_contexts,
                   retrieved_docs, fr_args, result>>

\* Variant: the loop bound is inclusive.
LoopContinuesInclusive(d, limit) == d <= limit

\* `for depth in range(recursion_depth)` has a next value
LoopContinues(d, limit) == d < limit

\* The loop is entered, or continued: process_subqueries starts with an empty
\* history and empty contexts.
BeginRound ==
    /\ pc = "loop"
    /\ LoopContinues(depth, recursion_depth)
    /\ Called("process_subqueries", <<>>)
    /\ history' = RoundHistory(history)
    /\ round_contexts' = <<>>
    /\ qi' = 1
    /\ pc' = "question"
    /\ UNCHANGED <<inputs, stream_vars, direct_vars, log_vars, mode, questions, depth,
                   iteration_history, final_contexts, rewritten_query,
                   retrieved_docs, fr_args, error, result>>

\* range(recursion_depth) is exhausted: the statement after the loop runs.
ExitLoop ==
    /\ pc = "loop"
    /\ ~LoopContinues(depth, recursion_depth)
    /\ pc' = "final"
    /\ UNCHANGED <<inputs, stream_vars, direct_vars, log_vars, mode, questions, depth, qi, history,
                   round_contexts, iteration_history, final_contexts,
                   rewritten_query, retrieved_docs, fr_args, trace, error, result>>

\* ------------------------------------------------------------------ process_subqueries
\* rewrite_query_with_context(question, history, llm): no language-model call
\* when history is empty, else one call whose output is stripped.
Rewrite ==
    /\ pc = "question"
    /\ qi <= Len(questions)
    /\ rewrites' = Append(rewrites, history)
    /\ IF HistoryIsEmpty(history)
       THEN /\ Called("rewrite_query_with_context", questions[qi])
            /\ rewritten_query' = questions[qi]
            /\ pc' = "retrieve"
            /\ UNCHANGED <<error, failed>>
       ELSE /\ trace' = trace \o <<<<"rewrite_query_with_context", questions[qi]>>,
                                   <<"rewrite", questions[qi]>>>>
            /\ \/ /\ Fail("rewrite")
                  /\ UNCHANGED rewritten_query
               \/ /\ rewritten_query' = Strip(RewriteOutput(questions[qi]))
                  /\ pc' = "retrieve"
                  /\ UNCHANGED <<error, failed>>
    /\ UNCHANGED <<inputs, stream_vars, direct_vars, subqueries, followups, retrieved_counts, mode,
                   questions, depth, qi, history, round_contexts, iteration_history,
                   final_contexts, retrieved_docs, fr_args, result>>

\* retrieve_and_rank_documents, first half: vdb_op.retrieval_langchain(query=query, ...)
Retrieve ==
    /\ pc = "retrieve"
    /\ Called("retrieve", rewritten_query)
    /\ \/ /\ Fail("retrieve")
          /\ UNCHANGED <<retrieved_docs, retrieved_counts>>
       \/ \E n \in RetrievedSizes :
            /\ retrieved_docs' = [i \in 1..n |-> Doc(Len(retrieved_counts) + 1, i)]
            /\ retrieved_counts' = Append(retrieved_counts, n)
            /\ pc' = IF ranker /\ n > 0 THEN "rerank" ELSE "retrieved"
            /\ UNCHANGED <<error, failed>>
    /\ UNCHANGED <<inputs, stream_vars, direct_vars, rewrites, subqueries, followups, mode, questions, depth, qi,
                   history, round_contexts, iteration_history, final_contexts,
                   rewritten_query, fr_args, result>>

\* retrieve_and_rank_documents, second half:
\* ranker.compress_documents(query=original_query, documents=retrieved_docs)
Rerank ==
    /\ pc = "rerank"
    /\ Called("rerank", RerankQuery(Query, rewritten_query))
    /\ \/ /\ Fail("rerank")
          /\ UNCHANGED retrieved_docs
       \/ /\ retrieved_docs' = Reranked(retrieved_docs, rerank_pattern)
          /\ pc' = "retrieved"
          /\ UNCHANGED <<error, failed>>
    /\ UNCHANGED <<inputs, stream_vars, direct_vars, rewrites, subqueries, followups, retrieved_counts, mode,
                   questions, depth, qi, history, round_contexts, iteration_history,
                   final_contexts, rewritten_query, fr_args, result>>

\* process_subqueries after retrieve_and_rank_documents returned: the filtered
\* documents join the round's contexts (normalization rewrites the scores of
\* the retrieved documents in place), the answer is generated and the
\* (question, answer) pair is appended.
Answer ==
    /\ pc = "retrieved"
    /\ mode = "iter"
    /\ IF KeepsContexts(ranker, retrieved_docs)
       THEN /\ round_contexts' = Extend(round_contexts,
                       normalize_relevance_scores(retrieved_docs, TRUE, confidence_threshold))
            /\ retrieved_docs' = [i \in DOMAIN retrieved_docs |-> NormalizeScore(retrieved_docs[i])]
       ELSE UNCHANGED <<round_contexts, retrieved_docs>>
    /\ Called("answer", rewritten_query)
    /\ \/ /\ Fail("answer")
          /\ UNCHANGED <<history, qi>>
       \/ /\ history' = Append(history, HistoryEntry(questions[qi], rewritten_query,
                                                  AnswerOutput(rewritten_query)))
          /\ qi' = qi + 1
          /\ pc' = "question"
          /\ UNCHANGED <<error, failed>>
    /\ UNCHANGED <<inputs, stream_vars, direct_vars, rewrites, subqueries, followups, retrieved_counts, mode,
                   questions, depth, iteration_history, final_contexts,
                   rewritten_query, fr_args, result>>

\* process_subqueries returns; `final_contexts.extend(iteration_contexts)`
EndRound ==
    /\ pc = "question"
    /\ qi > Len(questions)
    /\ iteration_history' = <<history>>
    /\ final_contexts' = Extend(final_contexts, round_contexts)
    /\ pc' = "followup"
    /\ UNCHANGED <<inputs, stream_vars, direct_vars, log_vars, mode, questions, depth, qi, history,
                   round_contexts, rewritten_query, retrieved_docs, fr_args, trace,
                   error, result>>

\* Variant: the cleaned text is returned.
FollowupResultCleaned(output) == RemoveQuotes(Strip(output))

\* generate_followup_question's return value for the language model's output
FollowupResult(output) ==
    IF RemoveQuotes(Strip(output)) # <<>> THEN output ELSE <<>>

\* generate_followup_question and the test `if followup_question.strip()`
Followup ==
    /\ pc = "followup"
    /\ Called("followup", Query)
    /\ \/ /\ Fail("followup")
          /\ UNCHANGED <<questions, depth, followups>>
       \/ \E output \in FollowupOutputs :
            LET followup_question == FollowupResult(output)
            IN  /\ followups' = Append(followups, [output |-> output,
                                                    returned |-> followup_question,
                                                    history |-> iteration_history[1],
                                                    contexts |-> final_contexts])
                /\ IF Continues(followup_question)
                   THEN /\ questions' = NextQuestions(questions, followup_question)
                        /\ depth' = depth + 1
                        /\ pc' = "loop"
                   ELSE /\ pc' = "final"
                        /\ UNCHANGED <<questions, depth>>
                /\ UNCHANGED <<error, failed>>
    /\ UNCHANGED <<inputs, stream_vars, direct_vars, rewrites, subqueries, retrieved_counts, mode, qi, history,
                   round_contexts, iteration_history, final_contexts,
                   rewritten_query, retrieved_docs, fr_args, result>>

\* ------------------------------------------------------------------ single-query path
\* Variant: filter_docs is left at its default.
SingleFilterDocsDefault == TRUE

\* The filter_docs argument of the single-query path's normalize_relevance_scores call
SingleFilterDocs == FALSE

\* `if ranker and retrieved_docs: retrieved_docs = normalize_relevance_scores(
\*      retrieved_docs, filter_docs=False, ...)`; the call of
\* generate_final_response(history=[], contexts=retrieved_docs, ...) is next.
SingleNormalize ==
    /\ pc = "retrieved"
    /\ mode = "single"
    /\ retrieved_docs' =
         IF ranker /\ retrieved_docs # <<>>
         THEN normalize_relevance_scores(retrieved_docs, SingleFilterDocs, confidence_threshold)
         ELSE retrieved_docs
    /\ pc' = "final"
    /\ UNCHANGED <<inputs, stream_vars, direct_vars, log_vars, mode, questions, depth, qi, history,
                   round_contexts, iteration_history, final_contexts,
                   rewritten_query, fr_args, trace, error, result>>

\* ------------------------------------------------------------------ generate_final_response
\* The parameters of generate_answer, in order.
GenerateAnswerParams == <<"generator", "contexts", "model", "namespace", "enable_citations">>

\* The call generate_final_response makes: one positional argument and these keywords.
FinalResponseKeywords == {"contexts", "model", "collection_name", "enable_citations"}

\* Python's argument binding: every keyword names a parameter that no
\* positional argument has filled.
Accepts(params, npositional, keywords) ==
    /\ npositional <= Len(params)
    /\ keywords \subseteq {params[i] : i \in (npositional + 1)..Len(params)}

\* The call of generate_final_response: its arguments are evaluated
\* (iteration_history may be unbound), and it calls generate_answer.
GenerateFinalResponse ==
    /\ pc = "final"
    /\ IF mode = "iter" /\ iteration_history = <<>>
       THEN /\ Raise("UnboundLocalError")
            /\ UNCHANGED <<fr_args, trace, result>>
       ELSE /\ fr_args' = IF mode = "single"
                          THEN <<[history |-> <<>>, contexts |-> retrieved_docs]>>
                          ELSE <<[history |-> iteration_history[1], contexts |-> final_contexts]>>
            /\ Called("generate_final_response", Query)
            /\ IF Accepts(GenerateAnswerParams, 1, FinalResponseKeywords)
               THEN /\ result' = "stream"
                    /\ pc' = "done"
                    /\ UNCHANGED error
               ELSE /\ Raise("TypeError")
                    /\ UNCHANGED result
    /\ UNCHANGED <<inputs, stream_vars, direct_vars, log_vars, mode, questions, depth, qi, history,
                   round_contexts, iteration_history, final_contexts,
                   rewritten_query, retrieved_docs>>

Next ==
    \/ CheckRetriever
    \/ GenerateSubqueries
    \/ BeginRound
    \/ ExitLoop
    \/ Rewrite
    \/ Retrieve
    \/ Rerank
    \/ Answer
    \/ EndRound
    \/ Followup
    \/ SingleNormalize
    \/ GenerateFinalResponse

Spec == Init /\ [][Next]_vars

\* ------------------------------------------------------------------ prepare_citations
\* A context document as prepare_citations reads it: source is "str" (a path),
\* "dict" (a mapping with a source_id) or "none" (metadata has no source); type
\* and subtype are those of content_metadata ("other" when it names none of
\* the handled ones); store is what the object store does when asked for the
\* document's thumbnail: a payload with content, a payload without, an error.
ContextDoc(source, type, subtype, page_content, store) ==
    [source |-> source, type |-> type, subtype |-> subtype,
     page_content |-> page_content, store |-> store]

LangchainDoc == ContextDoc("str", "other", "other", <<"p">>, "error")
TextDoc == ContextDoc("dict", "text", "other", <<"p">>, "error")
EmptyTextDoc == ContextDoc("dict", "text", "other", <<>>, "error")
AudioDoc == ContextDoc("dict", "audio", "other", <<"p">>, "error")
ImageDoc == ContextDoc("dict", "image", "other", <<"p">>, "content")
ImageDocNoPayload == ContextDoc("dict", "image", "other", <<"p">>, "no_content")
ImageDocStoreDown == ContextDoc("dict", "image", "other", <<"p">>, "error")
TableDoc == ContextDoc("dict", "structured", "table", <<"p">>, "content")
ChartDocStoreDown == ContextDoc("dict", "structured", "chart", <<"p">>, "error")
OtherStructuredDoc == ContextDoc("dict", "structured", "other", <<"p">>, "content")
UntypedDoc == ContextDoc("dict", "other", "other", <<"p">>, "error")
SourcelessDoc == ContextDoc("none", "text", "other", <<"p">>, "error")

ContextDocs ==
    {LangchainDoc, TextDoc, EmptyTextDoc, AudioDoc, ImageDoc, ImageDocNoPayload,
     ImageDocStoreDown, TableDoc, ChartDocStoreDown, OtherStructuredDoc, UntypedDoc,
     SourcelessDoc}

\* Literal["image", "text", "table", "chart", "audio"]
CitationTypes == {"image", "text", "table", "chart", "audio"}

\* The locals of prepare_citations before its loop: `content` and
\* `document_type` are unbound, `citations` is empty.
CiteStart ==
    [raised |-> "none", bound |-> FALSE, content |-> <<>>, document_type |-> "none",
     citations |-> <<>>, fetches |-> 0]

\* payload.get("content", ""); an error of the fetch is caught and gives "".
FetchedContent(doc) == IF doc.store = "content" THEN <<"i">> ELSE <<>>

\* Variant: an error of the fetch is not caught.
ResolveStructuredUncaught(st, doc, enable) ==
    LET document_type == IF doc.type = "image" THEN "image" ELSE doc.subtype
    IN  IF enable /\ doc.store = "error"
        THEN [st EXCEPT !.raised = "StoreError", !.fetches = @ + 1]
        ELSE [st EXCEPT !.bound = TRUE,
                        !.document_type = document_type,
                        !.content = IF enable THEN FetchedContent(doc) ELSE <<>>,
                        !.fetches = IF enable THEN @ + 1 ELSE @]

\* The branch for the types "image" and "structured".
ResolveStructured(st, doc, enable) ==
    LET document_type == IF doc.type = "image" THEN "image" ELSE doc.subtype
    IN  [st EXCEPT !.bound = TRUE,
                   !.document_type = document_type,
                   !.content = IF enable THEN FetchedContent(doc) ELSE <<>>,
                   !.fetches = IF enable THEN @ + 1 ELSE @]

\* Variant: the new citation is put in front of the list.
AddCitationInFront(citations, c) == <<c>> \o citations

\* citations.append(source_result)
AddCitation(citations, c) == Append(citations, c)

\* One pass of the loop body, for the document at position i.
CiteDoc(st, doc, i, enable) ==
    LET by_source ==
            IF doc.source = "str"
            THEN [st EXCEPT !.bound = TRUE, !.content = doc.page_content,
                            !.document_type = "text"]
            ELSE IF doc.source = "dict" THEN st
            ELSE [st EXCEPT !.raised = "AttributeError"]
        by_type ==
            IF by_source.raised # "none" THEN by_source
            ELSE IF doc.type \in {"text", "audio"}
            THEN [by_source EXCEPT !.bound = TRUE, !.content = doc.page_content,
                                   !.document_type = doc.type]
            ELSE IF doc.type \in {"image", "structured"}
            THEN ResolveStructured(by_source, doc, enable)
            ELSE by_source
    IN  IF by_type.raised # "none" THEN by_type
        ELSE IF ~by_type.bound THEN [by_type EXCEPT !.raised = "UnboundLocalError"]
        ELSE IF by_type.content # <<>> /\ by_type.document_type \in CitationTypes
        THEN [by_type EXCEPT !.citations =
                 AddCitation(@, [document |-> i,
                                 content |-> by_type.content,
                                 document_type |-> by_type.document_type])]
        ELSE by_type

\* `for doc in retrieved_documents:` from position i on; an exception ends it.
RECURSIVE CiteFrom(_, _, _, _)
CiteFrom(st, docs, i, enable) ==
    IF i > Len(docs) \/ st.raised # "none" THEN st
    ELSE CiteFrom(CiteDoc(st, docs[i], i, enable), docs, i + 1, enable)

\* prepare_citations(retrieved_documents, force_citations, enable_citations):
\* the exception that left it ("none" when it returned), the Citations it
\* returned, and the object-store fetches it made.
prepare_citations(retrieved_documents, force, enable) ==
    LET st == IF force \/ enable
              THEN CiteFrom(CiteStart, retrieved_documents, 1, enable)
              ELSE CiteStart
    IN  [raised |-> st.raised,
         total_results |-> IF st.raised = "none" THEN Len(st.citations) ELSE 0,
         results |-> IF st.raised = "none" THEN st.citations ELSE <<>>,
         fetches |-> st.fetches]

\* ------------------------------------------------------------------ response stream
\* exception_msg of generate_answer's first `except Exception` clause
VdbExceptionMsg == <<
    "E", "r", "r", "o", "r", " ", "f", "r", "o", "m", " ", "v", "e", "c", "t", "o",
    "r", " ", "d", "a", "t", "a", "b", "a", "s", "e", " ", "s", "e", "r", "v", "e",
    "r", ".", " ", "P", "l", "e", "a", "s", "e", " ", "e", "n", "s", "u", "r", "e",
    " ", "y", "o", "u", " ", "h", "a", "v", "e", " ", "i", "n", "g", "e", "s", "t",
    "e", "d", " ", "s", "o", "m", "e", " ", "d", "o", "c", "u", "m", "e", "n", "t",
    "s", ".", " ", "P", "l", "e", "a", "s", "e", " ", "c", "h", "e", "c", "k", " ",
    "r", "a", "g", "-", "s", "e", "r", "v", "e", "r", " ", "l", "o", "g", "s", " ",
    "f", "o", "r", " ", "m", "o", "r", "e", " ", "d", "e", "t", "a", "i", "l", "s",
    "." >>

\* bleach.clean(v, strip=True) on the texts of this model: "&" is escaped.
RECURSIVE Sanitize(_)
Sanitize(v) ==
    IF v = <<>> THEN <<>>
    ELSE (IF Head(v) = "&" THEN <<"&", "a", "m", "p", ";">> ELSE <<Head(v)>>)
         \o Sanitize(Tail(v))

\* Message(role=..., content=...) with its content validator
Message(role, content) == [role |-> role, content |-> Sanitize(content)]

ChainResponseChoices(content, finish_reason) ==
    [index |-> 0,
     message |-> Message("assistant", content),
     delta |-> Message("None", content),
     finish_reason |-> finish_reason]

\* The citations field of a ChainResponse: None, or a Citations object.
NoCitations == [present |-> FALSE, total_results |-> 0, results |-> <<>>]

Citations(total_results, results) ==
    [present |-> TRUE, total_results |-> total_results, results |-> results]

\* ChainResponse(): every field at its default
DefaultChainResponse ==
    [id |-> "", choices |-> <<>>, model |-> "", object |-> "",
     citations |-> Citations(0, <<>>)]

\* What a consumer of the stream gets per step: a "data: ..." event carrying a
\* ChainResponse, or (kind "generator") a generator object with the events it
\* would yield if it were iterated.
DataEvent(response) == [kind |-> "data", response |-> response, yields |-> <<>>]

GeneratorObject(yields) ==
    [kind |-> "generator", response |-> DefaultChainResponse, yields |-> yields]

\* The event generate_answer builds for a non-empty increment: the choice is
\* passed to the constructor and appended once more.
ContentEvent(chunk, citations) ==
    LET response_choice == ChainResponseChoices(chunk, "None")
        chain_response == [id |-> "resp_id",
                           choices |-> <<response_choice>>,
                           model |-> "model",
                           object |-> "chat.completion.chunk",
                           citations |-> citations]
    IN  DataEvent([chain_response EXCEPT !.choices = Append(@, response_choice)])

\* get_chain_response of error_response_generator
get_chain_response(content, finish_reason) ==
    [DefaultChainResponse EXCEPT
        !.id = "uuid",
        !.choices = Append(@, ChainResponseChoices(content, finish_reason)),
        !.object = "chat.completion.chunk"]

ChunkSize == 5

Min(a, b) == IF a < b THEN a ELSE b

\* error_response_generator(exception_msg): the events it yields when iterated
error_response_generator(exception_msg) ==
    LET n == (Len(exception_msg) + ChunkSize - 1) \div ChunkSize
    IN  [k \in 1..n |->
            DataEvent(get_chain_response(
                SubSeq(exception_msg, ChunkSize * (k - 1) + 1,
                       Min(ChunkSize * k, Len(exception_msg))),
                "None"))]
        \o <<DataEvent(get_chain_response(<<>>, "stop"))>>

\* What generate_answer yields in its `except` clause.
ErrorYield(exception_msg) == <<GeneratorObject(error_response_generator(exception_msg))>>

\* Text increments the language-model stream may emit.
Increments == {<<>>, <<"h", "i">>, <<"&">>}

RECURSIVE SeqsUpTo(_, _)
SeqsUpTo(S, n) ==
    IF n = 0 THEN {<<>>}
    ELSE LET shorter == SeqsUpTo(S, n - 1)
         IN  shorter \cup {Append(s, x) : s \in shorter, x \in S}

\* Context lists generate_answer is given.
StreamContexts ==
    {<<>>, <<TextDoc>>, <<ImageDoc, ImageDocStoreDown>>, <<TextDoc, UntypedDoc>>,
     <<UntypedDoc>>}

\* generate_answer called directly with a language-model stream.
InitStream ==
    /\ vdb_op = TRUE
    /\ ranker = FALSE
    /\ rerank_pattern = "asc"
    /\ recursion_depth = 0
    /\ confidence_threshold = 0
    /\ pc = "direct"
    /\ RunInit
    /\ generator \in SeqsUpTo(Increments, MaxIncr)
    /\ generator_raises \in BOOLEAN
    /\ enable_citations \in BOOLEAN
    /\ ga_pc = "running"
    /\ pulled = <<>>
    /\ events = <<>>
    /\ contexts \in StreamContexts
    /\ prepare_calls = 0
    /\ store_calls = 0
    /\ DirectIdle

\* Variant: citations are prepared for every chunk with content.
CallsPrepareAlways(chunk, enable) == chunk # <<>>

\* `if chunk:` and `prepare_citations(...) if enable_citations else None`
CallsPrepare(chunk, enable) == chunk # <<>> /\ enable

\* `for chunk in generator:` gets an increment; the loop body yields one event,
\* unless prepare_citations raises: then the `except Exception` clause yields
\* error_response_generator(exception_msg) and the loop is over.
YieldChunk ==
    /\ ga_pc = "running"
    /\ generator # <<>>
    /\ LET chunk == Head(generator)
           cites == CallsPrepare(chunk, enable_citations)
           cited == prepare_citations(contexts, FALSE, enable_citations)
       IN  /\ pulled' = Append(pulled, chunk)
           /\ prepare_calls' = IF cites THEN prepare_calls + 1 ELSE prepare_calls
           /\ store_calls' = IF cites THEN store_calls + cited.fetches ELSE store_calls
           /\ IF cites /\ cited.raised # "none"
              THEN /\ events' = events \o ErrorYield(VdbExceptionMsg)
                   /\ ga_pc' = "handled"
              ELSE /\ events' = Append(events,
                         IF chunk # <<>>
                         THEN ContentEvent(chunk,
                                  IF enable_citations
                                  THEN Citations(cited.total_results, cited.results)
                                  ELSE NoCitations)
                         ELSE DataEvent(DefaultChainResponse))
                   /\ UNCHANGED ga_pc
    /\ generator' = Tail(generator)
    /\ UNCHANGED <<run_vars, direct_vars, generator_raises, enable_citations, contexts>>

\* The language-model stream raises: the first `except Exception` clause
\* catches it and yields error_response_generator(exception_msg).
HandleException ==
    /\ ga_pc = "running"
    /\ generator = <<>>
    /\ generator_raises
    /\ events' = events \o ErrorYield(VdbExceptionMsg)
    /\ ga_pc' = "handled"
    /\ UNCHANGED <<run_vars, direct_vars, generator, generator_raises, enable_citations,
                   pulled, contexts, prepare_calls, store_calls>>

\* The language-model stream is exhausted, or the except clause is left:
\* generate_answer returns and its stream ends.
EndStream ==
    /\ \/ ga_pc = "running" /\ generator = <<>> /\ ~generator_raises
       \/ ga_pc = "handled"
    /\ ga_pc' = "closed"
    /\ UNCHANGED <<run_vars, direct_vars, generator, generator_raises, enable_citations,
                   pulled, events, contexts, prepare_calls, store_calls>>

NextStream ==
    \/ YieldChunk
    \/ HandleException
    \/ EndStream

SpecStream == InitStream /\ [][NextStream]_vars

\* ------------------------------------------------------------------ prepare_citations called directly
\* Neither iterative_query_decomposition nor generate_answer runs.
NoRun ==
    /\ vdb_op = TRUE
    /\ ranker = FALSE
    /\ rerank_pattern = "asc"
    /\ recursion_depth = 0
    /\ pc = "direct"
    /\ RunInit
    /\ generator = <<>>
    /\ generator_raises = FALSE
    /\ ga_pc = "idle"
    /\ pulled = <<>>
    /\ events = <<>>
    /\ prepare_calls = 0
    /\ store_calls = 0

InitCitations ==
    /\ NoRun
    /\ confidence_threshold = 0
    /\ contexts \in SeqsUpTo(ContextDocs, MaxCtx)
    /\ enable_citations \in BOOLEAN
    /\ force_citations \in BOOLEAN
    /\ citations_result = <<>>
    /\ norm_documents = <<>>
    /\ norm_filter_docs = FALSE
    /\ norm_result = <<>>
    /\ lm_output = <<>>
    /\ parsed = <<>>

\* One call prepare_citations(contexts, force_citations, enable_citations).
PrepareCitations ==
    /\ pc = "direct"
    /\ citations_result = <<>>
    /\ citations_result' = <<prepare_citations(contexts, force_citations, enable_citations)>>
    /\ UNCHANGED <<run_vars, stream_vars, force_citations, norm_documents,
                   norm_filter_docs, norm_result, lm_output, parsed>>

NextCitations == PrepareCitations

SpecCitations == InitCitations /\ [][NextCitations]_vars

\* ------------------------------------------------------------------ normalize_relevance_scores called directly
\* What the metadata of a document may hold: no relevance_score, or a raw one.
ScoreKinds ==
    {[has_score |-> FALSE, score |-> 0], [has_score |-> TRUE, score |-> -10],
     [has_score |-> TRUE, score |-> 10], [has_score |-> TRUE, score |-> 20]}

\* The documents of one retrieval with the given metadata, in rank order.
ScoredDocs(kinds) ==
    [i \in DOMAIN kinds |->
        [Doc(1, i) EXCEPT !.has_score = kinds[i].has_score, !.score = kinds[i].score]]

HasNoScores(docs) == \A i \in DOMAIN docs : ~docs[i].has_score

InitNormalize ==
    /\ NoRun
    /\ confidence_threshold \in {0, 600}
    /\ contexts = <<>>
    /\ enable_citations = FALSE
    /\ force_citations = FALSE
    /\ citations_result = <<>>
    /\ \E kinds \in SeqsUpTo(ScoreKinds, MaxDocs) : norm_documents = ScoredDocs(kinds)
    /\ norm_filter_docs \in BOOLEAN
    /\ norm_result = <<>>
    /\ lm_output = <<>>
    /\ parsed = <<>>

\* normalize_relevance_scores(norm_documents, norm_filter_docs, confidence_threshold);
\* norm_documents keeps the documents as they were handed in.
Normalize ==
    /\ pc = "direct"
    /\ norm_result = <<>>
    /\ norm_result' = <<normalize_relevance_scores(norm_documents, norm_filter_docs,
                                                   confidence_threshold)>>
    /\ UNCHANGED <<run_vars, stream_vars, force_citations, citations_result,
                   norm_documents, norm_filter_docs, lm_output, parsed>>

\* The function applied once more, to the list it returned.  Taken for lists
\* without scores: Sigmoid is tabulated for the scores of a reranker only.
NormalizeAgain ==
    /\ pc = "direct"
    /\ Len(norm_result) = 1
    /\ HasNoScores(norm_documents)
    /\ norm_result' = Append(norm_result,
                             normalize_relevance_scores(norm_result[1], norm_filter_docs,
                                                        confidence_threshold))
    /\ UNCHANGED <<run_vars, stream_vars, force_citations, citations_result,
                   norm_documents, norm_filter_docs, lm_output, parsed>>

NextNormalize ==
    \/ Normalize
    \/ NormalizeAgain

SpecNormalize == InitNormalize /\ [][NextNormalize]_vars

\* ------------------------------------------------------------------ the parser of generate_subqueries
\* Longest text of the language model the parser is applied to.
MaxText == 5

\* The characters of those texts: a digit, the two characters of the
\* separator ". ", a letter and the line break.
ParseChars == {"1", ".", " ", "a", "\n"}

\* c.isdigit()
IsDigit(c) == c = "0" \/ \E i \in DOMAIN Digits : Digits[i] = c

\* x.split("\n")
RECURSIVE SplitLines(_)
SplitLines(x) ==
    IF \A i \in DOMAIN x : x[i] # "\n" THEN <<x>>
    ELSE LET i == CHOOSE k \in DOMAIN x : x[k] = "\n" /\ \A j \in 1..(k - 1) : x[j] # "\n"
         IN  <<SubSeq(x, 1, i - 1)>> \o SplitLines(SubSeq(x, i + 1, Len(x)))

\* The positions at which ". " starts in q.
DotSpaceAt(q) == {i \in 1..(Len(q) - 1) : q[i] = "." /\ q[i + 1] = " "}

\* `". " in q`, asked of the line as it stands
HasDotSpace(q) == DotSpaceAt(q) # {}

\* q.split(". ", 1)
SplitOnce(q) ==
    IF DotSpaceAt(q) = {} THEN <<q>>
    ELSE LET i == CHOOSE k \in DotSpaceAt(q) : \A j \in DotSpaceAt(q) : k <= j
         IN  <<SubSeq(q, 1, i - 1), SubSeq(q, i + 2, Len(q))>>

\* `if q.strip() and any(c.isdigit() for c in q)`
KeepsLine(q) == Strip(q) # <<>> /\ \E i \in DOMAIN q : IsDigit(q[i])

\* `q.strip().split(". ", 1)[1] if ". " in q else q.strip()`; the subscript
\* raises IndexError when the split gave one part only.
ParseLine(q) ==
    IF HasDotSpace(q)
    THEN LET parts == SplitOnce(Strip(q))
         IN  IF Len(parts) >= 2
             THEN [raised |-> "none", value |-> parts[2]]
             ELSE [raised |-> "IndexError", value |-> <<>>]
    ELSE [raised |-> "none", value |-> Strip(q)]

\* The RunnableAssign "questions" lambda of generate_subqueries applied to the
\* text x of the language model.
ParseSubqueries(x) ==
    LET kept == SelectSeq(SplitLines(x), KeepsLine)
        each == [i \in DOMAIN kept |-> ParseLine(kept[i])]
    IN  IF \E i \in DOMAIN each : each[i].raised # "none"
        THEN [raised |-> "IndexError", questions |-> <<>>]
        ELSE [raised |-> "none", questions |-> [i \in DOMAIN each |-> each[i].value]]

\* The parser is applied to a text of the language model.
InitParse ==
    /\ NoRun
    /\ confidence_threshold = 0
    /\ contexts = <<>>
    /\ enable_citations = FALSE
    /\ force_citations = FALSE
    /\ citations_result = <<>>
    /\ norm_documents = <<>>
    /\ norm_filter_docs = FALSE
    /\ norm_result = <<>>
    /\ lm_output \in SeqsUpTo(ParseChars, MaxText)
    /\ parsed = <<>>

Parse ==
    /\ parsed = <<>>
    /\ parsed' = <<ParseSubqueries(lm_output)>>
    /\ UNCHANGED <<run_vars, stream_vars, force_citations, citations_result,
                   norm_documents, norm_filter_docs, norm_result, lm_output>>

NextParse == Parse

SpecParse == InitParse /\ [][NextParse]_vars

\* ------------------------------------------------------------------ properties
Rounds == Count(trace, "process_subqueries")

\* generate_subqueries returned two or more sub-questions
Decomposed == subqueries # <<>> /\ Len(subqueries[1]) >= 2

\* generate_subqueries returned exactly one sub-question
SingleSubquery == subqueries # <<>> /\ Len(subqueries[1]) = 1

AllFollowupsNonEmpty == \A i \in DOMAIN followups : followups[i].returned # <<>>

Finished == pc \in {"done", "raised"}

\* C1: with two or more subqueries and recursion_depth = D >= 1 the number of
\* rounds (calls of process_subqueries) never exceeds D; when every follow-up
\* returned so far is a non-empty question, the statement after the loop is
\* reached only after exactly D rounds, and the call of
\* generate_final_response comes directly after the last follow-up call.
C1_RecursionBound ==
    (Decomposed /\ recursion_depth >= 1) =>
        /\ Rounds <= recursion_depth
        /\ (pc = "final" /\ AllFollowupsNonEmpty) => Rounds = recursion_depth
        /\ fr_args # <<>> =>
              /\ trace[Len(trace)][1] = "generate_final_response"
              /\ trace[Len(trace) - 1][1] = "followup"

C1_Witness ==
    /\ Decomposed
    /\ recursion_depth = MaxDepth
    /\ AllFollowupsNonEmpty
    /\ fr_args # <<>>
    /\ Rounds = MaxDepth

\* C2: every run with a retriever in which no collaborator call fails ends
\* with iterative_query_decomposition returning generate_answer's stream and
\* raising nothing (recursion_depth >= 1; C7 is about the other depths).
C2_SynthesisReturnsStream ==
    (vdb_op /\ failed = "none" /\ recursion_depth >= 1 /\ Finished) =>
        (pc = "done" /\ result = "stream" /\ error = "none")

\* C3: without a retriever handle the run raises ValueError before any
\* language-model, retriever or reranker call, and returns no stream.
C3_NoRetrieverFailsFast ==
    ~vdb_op =>
        /\ trace = <<>>
        /\ result = "none"
        /\ pc \in {"start", "raised"}
        /\ pc = "raised" => error = "ValueError"

C3_Witness == ~vdb_op /\ pc = "raised" /\ error = "ValueError"

\* C4: when exactly one subquery was generated, the run makes no call of
\* process_subqueries, of the rewriter, of the per-question answer generation
\* or of the follow-up generator: besides the decomposition call itself it
\* makes one retrieval and at most one rerank before generate_final_response.
C4_SingleSubquerySkipsLoop ==
    SingleSubquery =>
        /\ \A i \in DOMAIN trace :
              trace[i][1] \in {"generate_subqueries", "retrieve", "rerank",
                               "generate_final_response"}
        /\ Count(trace, "retrieve") <= 1
        /\ Count(trace, "rerank") <= 1
        /\ (pc = "final" \/ fr_args # <<>>) => Count(trace, "retrieve") = 1

C4_Witness ==
    /\ SingleSubquery
    /\ fr_args # <<>>
    /\ Count(trace, "retrieve") = 1
    /\ Count(trace, "rerank") = 1

\* C5: in the single-query path the one retrieval is made with the original
\* query, the synthesizer is called with an empty history, and its contexts
\* are all the retrieved documents in retrieval order (scores normalized when
\* a reranker scored them), cut by nothing but the confidence threshold: no
\* top-3 selection is applied.
C5_SingleShotArguments ==
    (mode = "single" /\ fr_args # <<>>) =>
        LET n == retrieved_counts[1]
            all == [i \in 1..n |->
                      [id |-> <<1, i>>,
                       has_score |-> ranker,
                       score |-> IF ranker THEN Sigmoid(RawScore(rerank_pattern, i)) ELSE 0]]
            expected == IF ranker /\ confidence_threshold > 0
                        THEN filter_documents_by_confidence(all, confidence_threshold)
                        ELSE all
        IN  /\ Count(trace, "retrieve") = 1
            /\ \A i \in DOMAIN trace : trace[i][1] = "retrieve" => trace[i][2] = Query
            /\ fr_args[1].history = <<>>
            /\ fr_args[1].contexts = expected

C5_Witness ==
    /\ mode = "single"
    /\ ranker
    /\ fr_args # <<>>
    /\ Len(fr_args[1].contexts) > TopN
    /\ subqueries[1][1] # Query

\* C6: when generate_subqueries returns an empty list the run takes the
\* single-query path: no round, no follow-up call, one retrieval, and the
\* synthesizer is called with an empty history.
C6_EmptyDecompositionIsSingleShot ==
    subqueries = << <<>> >> =>
        /\ Count(trace, "process_subqueries") = 0
        /\ Count(trace, "followup") = 0
        /\ (Finished /\ failed = "none") =>
              /\ fr_args # <<>>
              /\ fr_args[1].history = <<>>
              /\ Count(trace, "retrieve") = 1

\* C7: with recursion_depth <= 0 and two or more subqueries the run processes
\* the decomposed questions in exactly one round, calls no follow-up, and
\* reaches the synthesizer without failing on an unset history.
C7_NonPositiveDepthRunsOneRound ==
    (recursion_depth <= 0 /\ Decomposed /\ Finished /\ failed = "none") =>
        /\ Rounds = 1
        /\ Count(trace, "followup") = 0
        /\ error # "UnboundLocalError"
        /\ fr_args # <<>>

\* A terminating chunk: one choice with finish_reason "stop" and no content.
IsStopEvent(e) ==
    /\ e.kind = "data"
    /\ Len(e.response.choices) >= 1
    /\ e.response.choices[1].finish_reason = "stop"
    /\ e.response.choices[1].message.content = <<>>

\* C8: a stream of generate_answer whose generation completed without error
\* ends with a terminating chunk (finish_reason "stop", empty content); stated
\* here for the generations that emitted at least one increment.
C8_StreamEndsWithStop ==
    (ga_pc = "closed" /\ ~generator_raises /\ pulled # <<>>) =>
        /\ events # <<>>
        /\ IsStopEvent(events[Len(events)])

\* C9: when the language-model stream raises after j increments, the consumer
\* gets, after the j events of those increments, the error message in pieces
\* of at most 5 characters as individual events and then one stop event.
C9_ErrorDeliveredAsEvents ==
    (ga_pc = "closed" /\ generator_raises) =>
        SubSeq(events, Len(pulled) + 1, Len(events))
            = error_response_generator(VdbExceptionMsg)

CarriesContent(e, text) ==
    /\ e.kind = "data"
    /\ e.response.choices # <<>>
    /\ \A c \in DOMAIN e.response.choices :
          /\ e.response.choices[c].message.content = text
          /\ e.response.choices[c].delta.content = text

\* C11: while the language-model stream raises no error, generate_answer has
\* yielded exactly one event per increment pulled, in the same order: the k-th
\* event carries the k-th increment as its content when that increment is
\* non-empty and is an empty default chunk otherwise; an event is yielded in
\* the step that pulls its increment, and the stream closes only when every
\* increment was pulled.
C11_OneEventPerIncrement ==
    ~generator_raises =>
        /\ Len(events) = Len(pulled)
        /\ \A k \in DOMAIN events :
              IF pulled[k] # <<>>
              THEN CarriesContent(events[k], pulled[k])
              ELSE events[k] = DataEvent(DefaultChainResponse)
        /\ ga_pc = "closed" => generator = <<>>

\* C12: every event on the response stream, the chunks an error generator
\* holds included, has a choices array of exactly one element.
C12_OneChoicePerEvent ==
    \A k \in DOMAIN events :
        /\ events[k].kind = "data" => Len(events[k].response.choices) = 1
        /\ \A j \in DOMAIN events[k].yields :
              Len(events[k].yields[j].response.choices) = 1

\* The direct call of prepare_citations returned (it raised nothing).
CitationsReturned == citations_result # <<>> /\ citations_result[1].raised = "none"

\* The positions in Contexts of the documents the result has an entry for.
CitedDocuments ==
    {citations_result[1].results[e].document : e \in DOMAIN citations_result[1].results}

\* C13: in every result prepare_citations returns, each entry has non-empty
\* content and a document_type among image, text, table, chart, audio; the
\* entries stand in the order of their documents in Contexts (each document
\* has at most one); and total_results is the number of entries.
C13_CitationsWellFormed ==
    CitationsReturned =>
        LET r == citations_result[1]
        IN  /\ \A e \in DOMAIN r.results :
                  /\ r.results[e].content # <<>>
                  /\ r.results[e].document_type \in CitationTypes
                  /\ r.results[e].document \in DOMAIN contexts
            /\ \A e, f \in DOMAIN r.results :
                  e < f => r.results[e].document < r.results[f].document
            /\ r.total_results = Len(r.results)

C13_Witness ==
    /\ CitationsReturned
    /\ citations_result[1].total_results >= 2
    /\ citations_result[1].total_results < Len(contexts)
    /\ \E e \in DOMAIN citations_result[1].results :
          citations_result[1].results[e].document_type = "table"

\* The object-store fetch for the document fails.
FetchFails(doc) == doc.type \in {"image", "structured"} /\ doc.store = "error"

\* A document every branch of prepare_citations gives a type and a content.
Handled(doc) ==
    /\ doc.source \in {"str", "dict"}
    /\ doc.source = "str" \/ doc.type \in {"text", "audio", "image", "structured"}

\* A handled document that has content of its own and one of the five types.
Citable(doc) ==
    /\ Handled(doc)
    /\ \/ doc.type \in {"text", "audio"} /\ doc.page_content # <<>>
       \/ doc.type = "image" /\ doc.store = "content"
       \/ doc.type = "structured" /\ doc.subtype \in {"table", "chart"}
                                  /\ doc.store = "content"
       \/ doc.type = "other" /\ doc.source = "str" /\ doc.page_content # <<>>

\* C14: in a call with enable_citations that reaches a document whose
\* object-store fetch fails, the failure raises nothing (a call on handled
\* documents returns), the document has no entry in the result, and every
\* later document is still evaluated: the citable ones have their entry.
C14_FetchFailureIsSkipped ==
    (citations_result # <<>> /\ enable_citations) =>
        LET r == citations_result[1]
        IN  \A k \in DOMAIN contexts :
                FetchFails(contexts[k]) =>
                    /\ r.raised # "StoreError"
                    /\ (\A j \in DOMAIN contexts : Handled(contexts[j])) => r.raised = "none"
                    /\ r.raised = "none" =>
                          /\ k \notin CitedDocuments
                          /\ \A j \in DOMAIN contexts :
                                (j > k /\ Citable(contexts[j])) => j \in CitedDocuments

C14_Witness ==
    /\ CitationsReturned
    /\ enable_citations
    /\ Len(contexts) = MaxCtx
    /\ FetchFails(contexts[1])
    /\ CitedDocuments = {2, 3}

\* The position in norm_documents of a returned document.
OriginalRank(d) == d.id[2]

\* The list is in descending order of score (a missing score counting as 0),
\* documents of equal score in their original relative order.
DescendingStable(docs) ==
    \A i, j \in DOMAIN docs :
        i < j => \/ SortKey(docs[i]) > SortKey(docs[j])
                 \/ /\ SortKey(docs[i]) = SortKey(docs[j])
                    /\ OriginalRank(docs[i]) < OriginalRank(docs[j])

\* Every returned document is the input document of its rank with its score
\* normalized, and no input document that was left out goes before a returned
\* one in the stable descending order.
IsTopOf(docs, input) ==
    /\ \A i \in DOMAIN docs :
          /\ OriginalRank(docs[i]) \in DOMAIN input
          /\ docs[i].id = input[OriginalRank(docs[i])].id
          /\ docs[i].has_score = input[OriginalRank(docs[i])].has_score
          /\ docs[i].has_score => docs[i].score = Sigmoid(input[OriginalRank(docs[i])].score)
    /\ \A k \in DOMAIN input :
          (\A i \in DOMAIN docs : OriginalRank(docs[i]) # k) =>
              \A i \in DOMAIN docs :
                  LET key == IF input[k].has_score THEN Sigmoid(input[k].score) ELSE 0
                  IN  \/ SortKey(docs[i]) > key
                      \/ SortKey(docs[i]) = key /\ OriginalRank(docs[i]) < k

\* C15 (as stated): with filter_docs and four or more documents the call
\* returns exactly 3 documents, in stable descending order of normalized
\* score, whatever the confidence_threshold.
C15_TopThreeAlways ==
    (norm_result # <<>> /\ norm_filter_docs /\ Len(norm_documents) >= 4) =>
        /\ Len(norm_result[1]) = TopN
        /\ DescendingStable(norm_result[1])

\* C15 (amended): with filter_docs and four or more documents, and a
\* confidence_threshold of 0, the call returns exactly the 3 documents that
\* come first in the stable descending order of normalized score, in that
\* order; with a confidence_threshold above 0 it returns what
\* filter_documents_by_confidence keeps of those 3, so at most 3.
C15_TopThreeBeforeThreshold ==
    (norm_result # <<>> /\ norm_filter_docs /\ Len(norm_documents) >= 4) =>
        LET top == normalize_relevance_scores(norm_documents, TRUE, 0)
        IN  /\ Len(top) = TopN
            /\ DescendingStable(top)
            /\ IsTopOf(top, norm_documents)
            /\ confidence_threshold = 0 => norm_result[1] = top
            /\ confidence_threshold > 0 =>
                  /\ norm_result[1] = filter_documents_by_confidence(top, confidence_threshold)
                  /\ Len(norm_result[1]) <= TopN

\* Four documents, the two best of equal score, one without a score.
C15_Witness ==
    /\ norm_result # <<>>
    /\ norm_filter_docs
    /\ confidence_threshold = 0
    /\ Len(norm_documents) >= 4
    /\ Len(norm_result[1]) = TopN
    /\ SortKey(norm_result[1][1]) = SortKey(norm_result[1][2])
    /\ norm_result[1][1].has_score
    /\ \E k \in DOMAIN norm_documents : ~norm_documents[k].has_score

\* C16 (as stated): on a list in which no document has a relevance_score the
\* call returns the same list, whatever its length and the filter_docs mode,
\* and a second call returns it again.
C16_NoScoresUnchanged ==
    HasNoScores(norm_documents) =>
        \A c \in DOMAIN norm_result : norm_result[c] = norm_documents

\* C16 (amended): on a list in which no document has a relevance_score, with
\* a confidence_threshold of 0, the call returns the same documents in the
\* same order with unchanged metadata when filter_docs is false or the list
\* has at most 3 documents, and the first 3 of them when filter_docs is true
\* and the list is longer; a second call on the result returns the result.
C16_NoScoresUnchangedUpToThree ==
    (HasNoScores(norm_documents) /\ confidence_threshold = 0) =>
        \A c \in DOMAIN norm_result :
            /\ norm_result[c] = IF norm_filter_docs /\ Len(norm_documents) > TopN
                                THEN SubSeq(norm_documents, 1, TopN)
                                ELSE norm_documents
            /\ norm_result[c] = norm_result[1]

C16_Witness ==
    /\ HasNoScores(norm_documents)
    /\ confidence_threshold = 0
    /\ Len(norm_documents) = MaxDocs
    /\ norm_filter_docs
    /\ Len(norm_result) = 2

\* C17: a call of rewrite_query_with_context made with an empty history (the
\* first of its round) makes no language-model call and returns its input,
\* which is what the retriever is then given; a call made with a non-empty
\* history makes exactly one language-model call; the rewriter's language
\* model is called nowhere else.
C17_RewriteSkipsEmptyHistory ==
    /\ \A i \in DOMAIN trace :
          /\ trace[i][1] = "rewrite_query_with_context" =>
                IF trace[i - 1][1] = "process_subqueries"
                THEN i < Len(trace) => trace[i + 1] = <<"retrieve", trace[i][2]>>
                ELSE /\ trace[i - 1][1] = "answer"
                     /\ trace[i + 1][1] = "rewrite"
                     /\ i + 1 < Len(trace) => trace[i + 2][1] # "rewrite"
          /\ trace[i][1] = "rewrite" => trace[i - 1][1] = "rewrite_query_with_context"
    /\ (pc = "retrieve" /\ mode = "iter") =>
          /\ history = <<>> <=> trace[Len(trace)][1] = "rewrite_query_with_context"
          /\ history = <<>> => rewritten_query = questions[qi]

C17_Witness ==
    /\ pc = "retrieve"
    /\ mode = "iter"
    /\ history # <<>>
    /\ rewritten_query # questions[qi]
    /\ Count(trace, "rewrite") = 1
    /\ Count(trace, "rewrite_query_with_context") = 2

\* str.strip("'\"") : the quote characters at both ends are taken off.
RECURSIVE StripQuotes(_)
StripQuotes(s) ==
    IF s # <<>> /\ Head(s) \in Quotes THEN StripQuotes(Tail(s))
    ELSE IF s # <<>> /\ s[Len(s)] \in Quotes THEN StripQuotes(SubSeq(s, 1, Len(s) - 1))
    ELSE s

\* C18: generate_followup_question returns the empty string exactly when the
\* language model's output, trimmed and with its surrounding quote characters
\* taken off, is empty; otherwise it returns the output as it is, and that
\* text is then the one question of the active question list, the one the
\* next round hands to the rewriter.
C18_FollowupReturnsRawOutput ==
    /\ \A i \in DOMAIN followups :
          /\ followups[i].returned = <<>> <=> StripQuotes(Strip(followups[i].output)) = <<>>
          /\ followups[i].returned # <<>> => followups[i].returned = followups[i].output
    /\ (followups # <<>> /\ followups[Len(followups)].returned # <<>>) =>
          questions = <<followups[Len(followups)].output>>
    /\ (followups # <<>> /\ trace[Len(trace)][1] = "rewrite_query_with_context") =>
          trace[Len(trace)][2] = followups[Len(followups)].output

C18_Witness ==
    /\ Len(followups) = 2
    /\ followups[1].output = <<"'", " ", "'">>
    /\ followups[2].output = <<" ", "f", "?">>
    /\ Count(trace, "rewrite_query_with_context") = MaxSub + 1
    /\ pc = "final"
    /\ questions = <<<<" ", "f", "?">>>>

\* C19: in the rounds, every retrieval is made with what the rewriter returned
\* for the question (the question itself, or the stripped output of the
\* language model); every rerank call is made with the original query, which
\* is not the query of the retrieval before it, and is made only with a
\* reranker supplied and directly after a retrieval that returned documents.
C19_RetrieveRewrittenRerankOriginal ==
    mode = "iter" =>
        /\ \A i \in DOMAIN trace :
              /\ trace[i][1] = "retrieve" =>
                    \/ /\ trace[i - 1][1] = "rewrite_query_with_context"
                       /\ trace[i][2] = trace[i - 1][2]
                    \/ /\ trace[i - 1][1] = "rewrite"
                       /\ trace[i][2] = Strip(RewriteOutput(trace[i - 1][2]))
              /\ trace[i][1] = "rerank" =>
                    /\ trace[i][2] = Query
                    /\ trace[i - 1][1] = "retrieve"
                    /\ trace[i - 1][2] # trace[i][2]
                    /\ ranker
        /\ trace[Len(trace)][1] = "rerank" =>
              retrieved_counts[Len(retrieved_counts)] > 0

C19_Witness ==
    /\ mode = "iter"
    /\ trace[Len(trace)][1] = "rerank"
    /\ trace[Len(trace) - 2][1] = "rewrite"
    /\ Count(trace, "retrieve") > Count(trace, "rerank")

\* The round in which the k-th retrieval of the run was made is of no
\* concern here: the filtered documents of the first k retrievals, in order.
RECURSIVE FilteredUpTo(_)
FilteredUpTo(k) ==
    IF k = 0 THEN <<>>
    ELSE FilteredUpTo(k - 1)
         \o (IF ranker /\ retrieved_counts[k] > 0
             THEN LET scored == [i \in 1..retrieved_counts[k] |->
                                    [id |-> <<k, i>>, has_score |-> TRUE,
                                     score |-> RawScore(rerank_pattern, i)]]
                  IN  normalize_relevance_scores(scored, TRUE, confidence_threshold)
             ELSE <<>>)

\* The questions of the last round: the decomposed list in round 1, the last
\* follow-up question afterwards.
LastRoundQuestions ==
    IF Rounds = 1 THEN subqueries[1] ELSE <<followups[Rounds - 1].returned>>

\* What the rewriter returns for the i-th question of a round.
RewrittenAt(qs, i) == IF i = 1 THEN qs[1] ELSE Strip(RewriteOutput(qs[i]))

\* C20: when the loop was left after k >= 1 rounds, generate_final_response
\* is called with the history of round k alone (one question/answer pair per
\* question of that round) and with the filtered documents of every question
\* of every round, in the order in which the questions were processed.
C20_SynthesisArguments ==
    (mode = "iter" /\ fr_args # <<>>) =>
        /\ Rounds >= 1
        /\ fr_args[1].history =
              [i \in DOMAIN LastRoundQuestions |->
                  <<LastRoundQuestions[i], AnswerOutput(RewrittenAt(LastRoundQuestions, i))>>]
        /\ fr_args[1].contexts = FilteredUpTo(Len(retrieved_counts))

C20_Witness ==
    /\ mode = "iter"
    /\ fr_args # <<>>
    /\ Rounds = 2
    /\ Len(subqueries[1]) = 2
    /\ Len(fr_args[1].history) = 1
    /\ \A k \in 1..3 : \E c \in DOMAIN fr_args[1].contexts : fr_args[1].contexts[c].id[1] = k

\* The questions round r works on: the decomposed list in round 1, the
\* follow-up question the round before returned afterwards.
QuestionsOfRound(r) == IF r = 1 THEN subqueries[1] ELSE <<followups[r - 1].returned>>

\* The history a round over the questions qs hands back.
HistoryOf(qs) == [i \in DOMAIN qs |-> <<qs[i], AnswerOutput(RewrittenAt(qs, i))>>]

\* C21: in a run of the loop with recursion_depth = D >= 1 in which no call
\* fails, rounds and follow-up calls alternate, one follow-up call per round
\* with that round's history and the contexts accumulated so far; only the
\* last follow-up may be empty, so nothing but the synthesis follows an empty
\* follow-up; and the synthesis is called once, after k rounds and k
\* follow-up calls, k being D or the round of the empty follow-up.
C21_RoundsThenSynthesis ==
    (mode = "iter" /\ recursion_depth >= 1 /\ failed = "none") =>
        /\ Len(followups) <= Rounds
        /\ Rounds <= Len(followups) + 1
        /\ Rounds <= recursion_depth
        /\ \A r \in DOMAIN followups :
              /\ r < Len(followups) => followups[r].returned # <<>>
              /\ followups[r].history = HistoryOf(QuestionsOfRound(r))
              /\ followups[r].contexts =
                    FilteredUpTo(Len(subqueries[1]) + r - 1)
        /\ (followups # <<>> /\ followups[Len(followups)].returned = <<>>) =>
              /\ pc \in {"final", "done", "raised"}
              /\ trace[Len(trace)][1] \in {"followup", "generate_final_response"}
        /\ (pc = "final" \/ fr_args # <<>>) =>
              /\ Rounds = Len(followups)
              /\ Rounds >= 1
              /\ Rounds = recursion_depth \/ followups[Rounds].returned = <<>>
              /\ Count(trace, "generate_final_response") <= 1
              /\ fr_args # <<>> => Count(trace, "generate_final_response") = 1

C21_Witness ==
    /\ mode = "iter"
    /\ recursion_depth = MaxDepth
    /\ fr_args # <<>>
    /\ Len(followups) = MaxDepth
    /\ followups[MaxDepth].returned # <<>>
    /\ followups[MaxDepth].contexts # <<>>
    /\ Len(followups[1].history) = 2

\* process_subqueries is at work on a question list.
InRound == mode = "iter" /\ pc \in {"question", "retrieve", "rerank", "retrieved"}

\* How many rewrite_query_with_context calls the rounds before round r made
\* in a run in which no call failed.
RewritesBefore(r) == IF r = 1 THEN 0 ELSE Len(subqueries[1]) + r - 2

\* C22: within a round the questions are taken one after another: while
\* question number qi is worked on, the round's history is exactly the pairs
\* (question as submitted, answer) of the qi - 1 questions before it, in
\* order; the rewriter was called for each question of the round with the
\* history of the questions before that one; and the calls of a question
\* come only after the answer call of the question before it.
C22_RoundIsSequential ==
    (InRound /\ failed = "none") =>
        /\ qi \in 1..(Len(questions) + 1)
        /\ history = SubSeq(HistoryOf(questions), 1, qi - 1)
        /\ Len(rewrites) = RewritesBefore(Rounds)
                              + (IF pc = "question" THEN qi - 1 ELSE qi)
        /\ \A i \in 1..(Len(rewrites) - RewritesBefore(Rounds)) :
              rewrites[RewritesBefore(Rounds) + i] = SubSeq(HistoryOf(questions), 1, i - 1)
        /\ (pc = "question" /\ qi > 1) => trace[Len(trace)][1] = "answer"
        /\ (pc = "retrieve" /\ qi > 1) =>
              /\ trace[Len(trace) - 1][1] = "rewrite_query_with_context"
              /\ trace[Len(trace) - 2][1] = "answer"

C22_Witness ==
    /\ InRound
    /\ failed = "none"
    /\ pc = "question"
    /\ Len(history) = MaxSub
    /\ rewrites[MaxSub] # <<>>
    /\ history[MaxSub][1] # rewrites[MaxSub][1][1]
    /\ \E i \in DOMAIN trace : trace[i][1] = "rewrite" /\ history[MaxSub][1] = trace[i][2]

IsPrefix(s, t) == Len(s) <= Len(t) /\ SubSeq(t, 1, Len(s)) = s

\* C23: every step of a run leaves the accumulated contexts as they were or
\* adds documents at their end: the value before the step is a prefix of the
\* value after it.  The same holds for the list a round accumulates, from
\* the round's start to its end.
C23_ContextsAppendOnly ==
    [][/\ IsPrefix(final_contexts, final_contexts')
       /\ pc # "loop" => IsPrefix(round_contexts, round_contexts')]_vars

\* Two rounds have added documents, the second behind those of the first.
C23_Witness ==
    /\ mode = "iter"
    /\ Rounds = 2
    /\ pc = "followup"
    /\ Len(final_contexts) > TopN
    /\ final_contexts[1].id[1] = 1
    /\ final_contexts[Len(final_contexts)].id[1] = 3

\* C24: while a round works, its question list is the decomposed list in
\* round 1 and, in every later round, the one question the follow-up call of
\* the round before returned; when a round is over, the rewriter has been
\* called once per decomposed question and once per later round, so the
\* decomposed questions were worked on in round 1 only.
C24_LaterRoundsHaveOneQuestion ==
    /\ InRound =>
          /\ Len(followups) = Rounds - 1
          /\ Rounds = 1 => questions = subqueries[1]
          /\ Rounds >= 2 =>
                /\ Len(questions) = 1
                /\ questions[1] = followups[Rounds - 1].returned
                /\ questions[1] # <<>>
    /\ (mode = "iter" /\ pc = "followup") =>
          /\ Len(rewrites) = Len(subqueries[1]) + Rounds - 1
          /\ Count(trace, "retrieve") = Len(rewrites)
          /\ Count(trace, "answer") = Len(rewrites)

C24_Witness ==
    /\ mode = "iter"
    /\ pc = "followup"
    /\ Rounds = 2
    /\ Len(subqueries[1]) = 2
    /\ Len(rewrites) = 3
    /\ questions = <<<<"'", " ", "'">>>>

\* C25: in the rounds, a document gets into the contexts (of the round or of
\* the run) only from a retrieval that returned documents in a run with a
\* reranker, which scored it; without a reranker both lists stay empty and
\* the synthesizer is given no contexts, whatever was retrieved.
C25_ContextsNeedReranker ==
    mode = "iter" =>
        /\ \A c \in DOMAIN (final_contexts \o round_contexts) :
              LET d == (final_contexts \o round_contexts)[c]
              IN  /\ ranker
                  /\ d.has_score
                  /\ d.id[1] \in DOMAIN retrieved_counts
                  /\ retrieved_counts[d.id[1]] > 0
        /\ ~ranker =>
              /\ final_contexts = <<>>
              /\ round_contexts = <<>>
              /\ Count(trace, "rerank") = 0
              /\ fr_args # <<>> => fr_args[1].contexts = <<>>

C25_Witness ==
    /\ mode = "iter"
    /\ ~ranker
    /\ fr_args # <<>>
    /\ fr_args[1].contexts = <<>>
    /\ Len(retrieved_counts) = 3
    /\ \A k \in DOMAIN retrieved_counts : retrieved_counts[k] = MaxDocs
    /\ Count(trace, "answer") = 3

\* The entry the result has for the document at position k.
EntryOf(k) ==
    LET r == citations_result[1].results
    IN  r[CHOOSE e \in DOMAIN r : r[e].document = k]

\* C26: in a call that runs the loop, every document is cited, or not, as it
\* would be in a call on that document alone, with the same content and
\* document_type; a document with a non-string source and a type that is none
\* of text, audio, image, structured is not cited, and the call raises nothing
\* because of it (a call on documents that all have a source returns).
C26_CitationsPerDocument ==
    (citations_result # <<>> /\ (force_citations \/ enable_citations)) =>
        /\ (\A k \in DOMAIN contexts : contexts[k].source # "none") =>
              citations_result[1].raised = "none"
        /\ citations_result[1].raised = "none" =>
              \A k \in DOMAIN contexts :
                  IF Handled(contexts[k])
                  THEN LET alone == prepare_citations(<<contexts[k]>>, force_citations,
                                                      enable_citations)
                       IN  /\ k \in CitedDocuments <=> alone.total_results = 1
                           /\ k \in CitedDocuments =>
                                 /\ EntryOf(k).content = alone.results[1].content
                                 /\ EntryOf(k).document_type = alone.results[1].document_type
                  ELSE k \notin CitedDocuments

\* The lengths n of the numbers N for which the text t starts with "N. ".
NumberPrefix(t) ==
    {n \in 1..(Len(t) - 2) :
        /\ \A j \in 1..n : IsDigit(t[j])
        /\ t[n + 1] = "."
        /\ t[n + 2] = " "}

\* The line q stripped, and without its leading "N. " when it has one.
Unnumbered(q) ==
    LET t == Strip(q)
    IN  IF NumberPrefix(t) = {} THEN t
        ELSE LET n == CHOOSE k \in NumberPrefix(t) : TRUE
             IN  SubSeq(t, n + 3, Len(t))

\* One entry per line of x that is not blank and holds a digit.
ExpectedQuestions(x) ==
    LET kept == SelectSeq(SplitLines(x), KeepsLine)
    IN  [i \in DOMAIN kept |-> Unnumbered(kept[i])]

\* C27: for every text of the language model the parser of generate_subqueries
\* raises nothing and returns, in line order, one entry per non-blank line
\* that holds a digit: the stripped line without its leading "N. " if it has
\* one, the stripped line as it is otherwise.
C27_ParsesNumberedLines ==
    parsed # <<>> =>
        /\ parsed[1].raised = "none"
        /\ parsed[1].questions = ExpectedQuestions(lm_output)

\* C27, the part that holds: a returned list has one entry per line that is
\* not blank and holds a digit.
C27_OneEntryPerKeptLine ==
    (parsed # <<>> /\ parsed[1].raised = "none") =>
        Len(parsed[1].questions) = Len(ExpectedQuestions(lm_output))


\* C28: in every round the first question goes to the retriever as it was
\* submitted and no language-model call rewrites it, the round's history
\* being empty at that point; the question of a round after the first is a
\* first question, so every rewriter call of those rounds is given an empty
\* history and the language model rewrites questions of round 1 only.
C28_FirstQuestionVerbatim ==
    mode = "iter" =>
        /\ (pc \in {"retrieve", "rerank", "retrieved"} /\ qi = 1) =>
              /\ rewritten_query = questions[1]
              /\ rewrites[Len(rewrites)] = <<>>
              /\ trace[Len(trace)][1] # "rewrite"
        /\ (pc = "question" /\ qi = 1) => history = <<>>
        /\ \A i \in DOMAIN rewrites :
              (i = 1 \/ i > Len(subqueries[1])) => rewrites[i] = <<>>
        /\ \A i \in DOMAIN trace :
              trace[i][1] = "rewrite" =>
                  \E j \in 2..Len(subqueries[1]) : trace[i][2] = subqueries[1][j]
        /\ \A i \in 2..Len(trace) :
              (trace[i][1] = "retrieve" /\ trace[i - 1][1] = "rewrite_query_with_context") =>
                  trace[i][2] = trace[i - 1][2]

C28_Witness ==
    /\ mode = "iter"
    /\ Rounds = 2
    /\ pc = "retrieved"
    /\ Len(subqueries[1]) = MaxSub
    /\ Len(iteration_history[1]) = MaxSub
    /\ Count(trace, "rewrite") = MaxSub - 1
    /\ questions = <<followups[1].returned>>
    /\ rewritten_query = followups[1].returned
    /\ trace[Len(trace)] = <<"retrieve", followups[1].returned>>


\* C29: a question adds at most TopN documents to the contexts, so while the
\* loop runs the round's list and the accumulated list together hold at most
\* TopN documents per answered question, and the synthesis is given at most
\* TopN * (n + D - 1) of them, n being the number of decomposed sub-questions
\* and D the recursion depth.
C29_ContextsBounded ==
    mode = "iter" =>
        /\ InRound => Len(round_contexts) <= TopN * (qi - 1)
        /\ Len(final_contexts) + (IF InRound THEN Len(round_contexts) ELSE 0)
              <= TopN * Count(trace, "answer")
        /\ recursion_depth >= 1 =>
              /\ Len(final_contexts) <= TopN * (Len(subqueries[1]) + recursion_depth - 1)
              /\ fr_args # <<>> =>
                    Len(fr_args[1].contexts)
                        <= TopN * (Len(subqueries[1]) + recursion_depth - 1)

C29_Witness ==
    /\ mode = "iter"
    /\ fr_args # <<>>
    /\ recursion_depth = MaxDepth
    /\ Len(subqueries[1]) = MaxSub
    /\ \A i \in DOMAIN retrieved_counts : retrieved_counts[i] = MaxDocs
    /\ Len(fr_args[1].contexts) = TopN * (MaxSub + MaxDepth - 1)


\* C30: with enable_citations false generate_answer makes no call of
\* prepare_citations and none of the object store from the first chunk to
\* the end of the stream, and no event that carries content holds a
\* citations object.
C30_NoCitationsWhenDisabled ==
    (ga_pc # "idle" /\ ~enable_citations) =>
        /\ prepare_calls = 0
        /\ store_calls = 0
        /\ \A i \in DOMAIN events :
              (events[i].kind = "data" /\ events[i].response.choices # <<>>) =>
                  events[i].response.citations = NoCitations

C30_Witness ==
    /\ ga_pc = "closed"
    /\ ~enable_citations
    /\ contexts = <<ImageDoc, ImageDocStoreDown>>
    /\ Len(pulled) = MaxIncr
    /\ \E i \in DOMAIN events :
          /\ events[i].kind = "data"
          /\ events[i].response.choices # <<>>
          /\ events[i].response.citations = NoCitations

====
